---- MODULE Spec2Model ----
(***************************************************************************)
(* A model of coin_sorter.ino (Arduino Uno / AVR: int is 16 bits, long and *)
(* unsigned long are 32 bits).  Every handler of the sketch is one action; *)
(* the environment (sensor readings, button levels, the millisecond clock, *)
(* random()) is drawn with \E from small sets.                             *)
(*                                                                         *)
(* loop() as shipped calls only detectCoin and addCoin (lines 196-200);    *)
(* the calls of checkDollarButtons, checkMotorButton and updateAnimation   *)
(* are commented out (lines 202-213).  The handlers are nevertheless part  *)
(* of the program and are modelled as operations of their own.             *)
(***************************************************************************)
EXTENDS Integers, Sequences, FiniteSets, TLC

(* ------------------------------------------------------------------ *)
(* Program constants                                                    *)
(* ------------------------------------------------------------------ *)
MATRIX_WIDTH == 32
MATRIX_HEIGHT == 5
DIGIT_WIDTH == 3
DIGIT_SPACING == 1
DECIMAL_WIDTH == 1
PENNY_VALUE == 1
NICKEL_VALUE == 5
DIME_VALUE == 10
QUARTER_VALUE == 25
FIREWORK_INTERVAL == 1000
DEBOUNCE_DELAY == 10
EEPROM_TOTAL_ADDRESS == 0
\* 0xAA55
EEPROM_MAGIC_NUMBER == 43605
\* the literal 640 of detectCoin
COIN_THRESHOLD == 640
\* the literal 100 of addDollar / subtractDollar
DOLLAR == 100
PULSE_ON_TIME == 100
PULSE_OFF_TIME == 100
FORWARD_PULSES == 4
BACKWARD_PULSES == 1
TOTAL_SEQUENCES == 2
\* delay(100) of setup(): millis() when loop() first runs
SETUP_DELAY == 100
\* an erased EEPROM cell
ERASED_BYTE == 255

COIN_VALUES == (0 :> PENNY_VALUE) @@ (1 :> NICKEL_VALUE) @@ (2 :> DIME_VALUE) @@ (3 :> QUARTER_VALUE)
Channels == 0..3
CoinSet == {COIN_VALUES[i] : i \in Channels}
\* no animation was cut short
NoneAbandoned == [was |-> FALSE, burst |-> 0]
\* the two buttons read by checkDollarButtons
DollarButtons == {"add", "subtract"}

(* ------------------------------------------------------------------ *)
(* Bounds of the model                                                  *)
(* ------------------------------------------------------------------ *)
\* coin deposits explored in one run
MaxDeposits == 4
\* addDollar is not explored beyond this total (cents)
MaxTotal == 1100
\* milliseconds of sensor polling explored
MaxSensorTime == 15
\* milliseconds of motor ticking explored
MaxMotorTime == 2300
\* how many ms before the 2^32 wrap the late-clock initial state starts
WrapLead == 5
\* operations explored in the persistence specification
MaxStoreOps == 3
\* pixels set by direct calls of setMatrixPixel in one run
MaxPlots == 2

(* ------------------------------------------------------------------ *)
(* unsigned long: 32-bit values as two 16-bit halves (TLC's integers    *)
(* are 32-bit signed, so 2^32 itself is not a value)                    *)
(* ------------------------------------------------------------------ *)
Half == 65536

U32(n) == [hi |-> (n \div Half) % Half, lo |-> n % Half]

\* a + d modulo 2^32, for 0 <= d < 2^16
U32Add(a, d) ==
  [hi |-> (a.hi + ((a.lo + d) \div Half)) % Half, lo |-> (a.lo + d) % Half]

\* a subtraction that does not wrap: 0 when a is below b
U32SubClamped(a, b) ==
  IF a.hi < b.hi \/ (a.hi = b.hi /\ a.lo < b.lo)
  THEN [hi |-> 0, lo |-> 0]
  ELSE [hi |-> (a.hi - b.hi - (IF a.lo < b.lo THEN 1 ELSE 0) + Half) % Half,
        lo |-> (a.lo - b.lo + Half) % Half]

\* a - b modulo 2^32 (unsigned subtraction)
U32Sub(a, b) ==
  LET borrow == IF a.lo < b.lo THEN 1 ELSE 0
  IN  [hi |-> (a.hi - b.hi - borrow + Half) % Half, lo |-> (a.lo - b.lo + Half) % Half]

\* x > n and x >= n for an unsigned x and 0 <= n < 2^16
U32Gt(x, n) == x.hi > 0 \/ x.lo > n
U32Ge(x, n) == x.hi > 0 \/ x.lo >= n

(* ------------------------------------------------------------------ *)
(* Colours: strip.Color(r, g, b)                                        *)
(* ------------------------------------------------------------------ *)
Color(r, g, b) == r * 65536 + g * 256 + b
GREEN == Color(0, 255, 0)
YELLOW == Color(255, 255, 0)
CYAN == Color(0, 255, 255)
ORANGE == Color(255, 165, 0)
RED == Color(255, 0, 0)
PURPLE == Color(255, 0, 255)
WHITE == Color(255, 255, 255)
\* colors[] of startFireworkAnimation / updateAnimation
FireworkColors ==
  <<Color(255, 0, 0), Color(0, 255, 0), Color(0, 0, 255),
    Color(255, 255, 0), Color(255, 0, 255), Color(0, 255, 255)>>

VARIABLES
  \* ---- program state -------------------------------------------------
  totalAmount,
  lastSensorTimes, lastSensorStates,
  animationPlaying, animationStartTime, animationStep, fireworkBurst,
  fireworkCenterX, fireworkCenterY, fireworkColor, sparkleStep, flashStep,
  motorRunning, motorDirection, motorStartTime, lastMotorButtonState,
  lastPulseTime, pulseState, pulseCount, sequenceCount, pulsesInCurrentSequence,
  lastAddButtonState, lastSubtractButtonState, lastAddButtonTime, lastSubtractButtonTime,
  \* ---- hardware ------------------------------------------------------
  pinForward, pinBackward,   \* MOTOR_FORWARD_PIN, MOTOR_BACKWARD_PIN (TRUE = HIGH)
  eeprom,                    \* EEPROM cells 0..5
  frame,                     \* the pixel frame as last flushed by strip.show()
  clock,                     \* millis()
  \* ---- observation (history) variables -------------------------------
  elapsed,                   \* milliseconds of polling or ticking so far (0 after setup)
  op,                        \* the handler that ran last
  armed,                     \* it called startFireworkAnimation
  flushed,                   \* it called updateDisplay (wrote and flushed the frame)
  saved,                     \* it called saveTotalToEEPROM
  deposited,                 \* deposits so far, per denomination
  adjusted,                  \* an adjustment, a load or a restart has changed the total
  prevOcc,                   \* each channel's occupancy at the previous poll
  pending,                   \* a rising edge seen on the channel and not yet reported
  spurious,                  \* a report on the channel with no rising edge behind it
  coinValue,                 \* what detectCoin returned at the last poll
  lastEventAt,               \* real time of the channel's last detection, -1 if none
  preempted,                 \* the channel qualified at a poll in which an earlier one fired
  onLog,                     \* directions of the On phases of the current motor run
  pressedInRun,              \* checkMotorButton saw a press while that run was under way
  lastSaved,                 \* argument of the last save; valid: a record is in store
  storeOps,                  \* operations taken in the persistence specification
  policyLatch,               \* the latch a sensor channel would hold on the button's readings
  buttonFired,               \* the button's handler was called at the last poll
  policyFired,               \* a sensor channel would have fired at that poll
  buttonEventAt,             \* real time of the button's last event, -1 if none
  animLog,                   \* frames flushed by updateAnimation since the animation was armed
  abandoned,                 \* the last ledger operation armed over an animation in progress
  pulseOriginAt,             \* real time at which the current pulse phase began, -1 before the first run
  motorStartedAt,            \* real time of the last startMotor, -1 if none
  plotted                    \* direct setMatrixPixel calls: [x, y, index addressed]

sensorVars == <<lastSensorTimes, lastSensorStates>>
animState == <<animationPlaying, animationStartTime, animationStep, fireworkBurst,
               fireworkCenterX, fireworkCenterY, fireworkColor, sparkleStep, flashStep,
               animLog>>
animVars == <<animState, abandoned>>
motorVars == <<motorRunning, motorDirection, motorStartTime, lastMotorButtonState,
               lastPulseTime, pulseState, pulseCount, sequenceCount,
               pulsesInCurrentSequence, pinForward, pinBackward, pressedInRun, pulseOriginAt, motorStartedAt>>
buttonVars == <<lastAddButtonState, lastSubtractButtonState, lastAddButtonTime,
                lastSubtractButtonTime, policyLatch, buttonFired, policyFired, buttonEventAt>>
sensorGhost == <<prevOcc, pending, spurious, coinValue, lastEventAt, preempted>>
vars == <<totalAmount, sensorVars, animVars, motorVars, buttonVars, eeprom, frame,
          clock, elapsed, op, armed, flushed, saved, deposited, adjusted,
          sensorGhost, onLog, lastSaved, storeOps, plotted>>

(* ------------------------------------------------------------------ *)
(* Matrix renderer: drawMoney                                           *)
(* ------------------------------------------------------------------ *)
\* C's integer division (truncates toward zero), b > 0
TruncDiv(a, b) == IF a >= 0 THEN a \div b ELSE -((-a) \div b)

\* C's remainder: the sign of the dividend
TruncRem(a, b) == a - b * TruncDiv(a, b)

\* a character as drawMoney passes it to drawDigit: charAt(i) - '0'; the
\* digits are 0..9 and '-' (45) comes out as 45 - 48
MinusGlyph == 45 - 48

\* the decimal digits of n >= 0, most significant first
RECURSIVE DecimalDigits(_)
DecimalDigits(n) ==
  IF n < 10 THEN <<n>> ELSE Append(DecimalDigits(n \div 10), n % 10)

\* String(n) of a long
String(n) == IF n < 0 THEN <<MinusGlyph>> \o DecimalDigits(-n) ELSE DecimalDigits(n)

\* a minor part printed as it is, without the leading zero
CentStrPlain(cents) == String(cents)

\* centStr = (cents < 10) ? "0" + String(cents) : String(cents)
CentStr(cents) == IF cents < 10 THEN <<0>> \o String(cents) ELSE String(cents)

\* a truncation that keeps the leading digits: substring(0, maxDollarDigits)
KeepLeadingDigits(dollarStr, maxDollarDigits) ==
  IF Len(dollarStr) > maxDollarDigits
  THEN SubSeq(dollarStr, 1, maxDollarDigits)
  ELSE dollarStr

\* if (dollarStr.length() > maxDollarDigits)
\*   dollarStr = dollarStr.substring(dollarStr.length() - maxDollarDigits)
FitDollarStr(dollarStr, maxDollarDigits) ==
  IF Len(dollarStr) > maxDollarDigits
  THEN SubSeq(dollarStr, Len(dollarStr) - maxDollarDigits + 1, Len(dollarStr))
  ELSE dollarStr

\* what one call of drawDigit / drawDecimalPoint puts at column x
DigitAt(d, col) == [kind |-> "digit", digit |-> d, x |-> col]
PointAt(col) == [kind |-> "point", digit |-> 0, x |-> col]

\* drawDigit returns at once for a digit outside 0..9
Drawable(g) == g.kind = "point" \/ (g.digit >= 0 /\ g.digit <= 9)

\* drawMoney(amount, color): the glyphs drawn, in the order of the calls
drawMoney(amount) ==
  LET dollars == TruncDiv(amount, 100)
      cents == TruncRem(amount, 100)
      maxDollarDigits == (MATRIX_WIDTH - 10) \div 4
      dollarStr == FitDollarStr(String(dollars), maxDollarDigits)
      centStr == CentStr(cents)
      totalWidth == (Len(dollarStr) * 4) + 2 + 8
      startX == MATRIX_WIDTH - totalWidth
      pointX == startX + Len(dollarStr) * (DIGIT_WIDTH + DIGIT_SPACING)
      centX == pointX + DECIMAL_WIDTH + DIGIT_SPACING
      calls == [i \in 1..Len(dollarStr) |->
                  DigitAt(dollarStr[i], startX + (i - 1) * (DIGIT_WIDTH + DIGIT_SPACING))]
               \o <<PointAt(pointX)>>
               \o [i \in 1..Len(centStr) |->
                     DigitAt(centStr[i], centX + (i - 1) * (DIGIT_WIDTH + DIGIT_SPACING))]
  IN  SelectSeq(calls, Drawable)

(* ------------------------------------------------------------------ *)
(* Pixel frame.  Every handler that touches the strip clears or fills   *)
(* it, draws and flushes within one call, so the frame is named by what *)
(* was drawn into it.                                                   *)
(* ------------------------------------------------------------------ *)
BlankFrame ==
  [kind |-> "blank", amount |-> 0, color |-> 0, x |-> 0, y |-> 0, glyphs |-> <<>>,
   beneath |-> {}]
WhiteFrame ==
  [kind |-> "white", amount |-> 0, color |-> WHITE, x |-> 0, y |-> 0, glyphs |-> <<>>,
   beneath |-> {}]
MoneyFrame(amount, color) ==
  [kind |-> "money", amount |-> amount, color |-> color, x |-> 0, y |-> 0,
   glyphs |-> drawMoney(amount), beneath |-> {}]
RingFrame(cx, cy, radius, color) ==
  [kind |-> "ring", amount |-> radius, color |-> color, x |-> cx, y |-> cy,
   glyphs |-> <<>>, beneath |-> {}]

\* The strip's pixel buffer between two handlers is the frame last flushed.
\* beneath names what is still lit in a buffer from before the drawing that
\* gives the frame its kind: the kinds of the frames those pixels belong to.

\* a buffer that is drawn into without being cleared: what it shows stays
stripUncleared(buf) == IF buf.kind = "blank" THEN buf.beneath ELSE buf.beneath \cup {buf.kind}

\* strip.clear(): every pixel of the buffer is off, nothing of buf remains
stripClear(buf) == {}

\* strip.fill(color): every pixel of the buffer is overwritten
stripFill(buf) == {}

\* updateDisplay(amount, color) on the buffer buf:
\* strip.clear(); drawMoney(amount, color); strip.show()
updateDisplay(buf, amount, color) ==
  [MoneyFrame(amount, color) EXCEPT !.beneath = stripClear(buf)]

(* ------------------------------------------------------------------ *)
(* EEPROM: little-endian bytes, EEPROM.put / EEPROM.get                 *)
(* ------------------------------------------------------------------ *)
EepromCells == 0..5

Byte(n, k) ==
  CASE k = 0 -> n % 256
    [] k = 1 -> (n \div 256) % 256
    [] k = 2 -> (n \div 65536) % 256
    [] OTHER -> (n \div 16777216) % 256

\* the four bytes of a long (two's complement)
LongByte(t, k) ==
  IF t >= 0 THEN Byte(t, k)
  ELSE IF k = 3 THEN 128 + Byte((t + 2147483647) + 1, 3)
  ELSE Byte((t + 2147483647) + 1, k)

\* EEPROM.get of an unsigned int (2 bytes) at address a
GetUInt(mem, a) == mem[a] + 256 * mem[a + 1]

\* EEPROM.get of a long (4 bytes) at address a
GetLong(mem, a) ==
  IF mem[a + 3] < 128
  THEN mem[a] + 256 * mem[a + 1] + 65536 * mem[a + 2] + 16777216 * mem[a + 3]
  ELSE ((mem[a] + 256 * mem[a + 1] + 65536 * mem[a + 2]
         + 16777216 * (mem[a + 3] - 128)) - 2147483647) - 1

\* EEPROM.put of a 2-byte value
PutUInt(mem, a, v) ==
  [c \in EepromCells |->
     IF c = a THEN Byte(v, 0) ELSE IF c = a + 1 THEN Byte(v, 1) ELSE mem[c]]

\* EEPROM.put of a long
PutLong(mem, a, t) ==
  [c \in EepromCells |->
     IF c >= a /\ c < a + 4 THEN LongByte(t, c - a) ELSE mem[c]]

\* saveTotalToEEPROM(): the marker, then the total
saveTotalToEEPROM(mem, total) ==
  PutLong(PutUInt(mem, EEPROM_TOTAL_ADDRESS, EEPROM_MAGIC_NUMBER),
          EEPROM_TOTAL_ADDRESS + 2, total)

\* a load that trusts the stored total without looking at the marker
LoadIgnoringMarker(mem) == GetLong(mem, EEPROM_TOTAL_ADDRESS + 2)

\* the total loadTotalFromEEPROM() leaves in totalAmount
loadTotalFromEEPROM(mem) ==
  IF GetUInt(mem, EEPROM_TOTAL_ADDRESS) = EEPROM_MAGIC_NUMBER
  THEN GetLong(mem, EEPROM_TOTAL_ADDRESS + 2)
  ELSE 0

\* clearEEPROM(): EEPROM.put(EEPROM_TOTAL_ADDRESS, 0x0000), an int
clearEEPROM(mem) == PutUInt(mem, EEPROM_TOTAL_ADDRESS, 0)

ErasedEeprom == [c \in EepromCells |-> ERASED_BYTE]

(* ------------------------------------------------------------------ *)
(* Ledger: addCoin, addDollar, subtractDollar                           *)
(* ------------------------------------------------------------------ *)
\* the milestone taken every 100 cents, as the comment on FIREWORK_INTERVAL says
MilestoneEveryDollar(previousAmount, newAmount) ==
  TruncDiv(newAmount, DOLLAR) > TruncDiv(previousAmount, DOLLAR)

\* currentMilestone > previousMilestone
MilestoneCrossed(previousAmount, newAmount) ==
  TruncDiv(newAmount, FIREWORK_INTERVAL) > TruncDiv(previousAmount, FIREWORK_INTERVAL)

\* a ledger that counts coins instead of adding their values
DepositCountsCoins(total, value) == total + 1

\* totalAmount += value
Deposit(total, value) == total + value

\* a subtraction guarded only against an empty total
CanSubtractAnyPositive(total) == total > 0

\* the guard of subtractDollar: totalAmount >= 100
CanSubtract(total) == total >= DOLLAR

\* a refusal shown in the colour of a successful subtraction
RefusalColorOrange == ORANGE

\* the colour subtractDollar shows the unchanged total in when it refuses
RefusalColor == RED

\* random(8, MATRIX_WIDTH - 8), random(1, MATRIX_HEIGHT - 1), random(6):
\* the extremes of each range and the whole palette
FireworkXs == {8, MATRIX_WIDTH - 8 - 1}
FireworkYs == {1, MATRIX_HEIGHT - 1 - 1}
PaletteIndexes == 1..Len(FireworkColors)

NumDeposits == deposited[PENNY_VALUE] + deposited[NICKEL_VALUE]
               + deposited[DIME_VALUE] + deposited[QUARTER_VALUE]

DepositedSum == PENNY_VALUE * deposited[PENNY_VALUE] + NICKEL_VALUE * deposited[NICKEL_VALUE]
                + DIME_VALUE * deposited[DIME_VALUE] + QUARTER_VALUE * deposited[QUARTER_VALUE]

\* an arming that lets an animation in progress go on from where it stands
ContinueAt(current) == current

\* animationStep = 0; fireworkBurst = 0; flashStep = 0: whatever they were
RestartAt(current) == 0

\* startFireworkAnimation(), called at time now
startFireworkAnimation(now) ==
  /\ animationPlaying' = TRUE
  /\ animationStartTime' = now
  /\ animationStep' = RestartAt(animationStep)
  /\ fireworkBurst' = RestartAt(fireworkBurst)
  /\ sparkleStep' = 0
  /\ flashStep' = RestartAt(flashStep)
  /\ animLog' = <<>>
  /\ abandoned' = [was |-> animationPlaying,
                   burst |-> IF animationPlaying THEN fireworkBurst ELSE 0]
  /\ \E cx \in FireworkXs, cy \in FireworkYs, k \in PaletteIndexes :
       /\ fireworkCenterX' = cx
       /\ fireworkCenterY' = cy
       /\ fireworkColor' = FireworkColors[k]

\* a deposit that persists the new total
SaveOnDeposit(mem, total) == saveTotalToEEPROM(mem, total)

\* the EEPROM after addCoin: the function makes no EEPROM call
StoreAfterDeposit(mem, total) == mem

\* addCoin(value), called at time now
addCoin(value, now) ==
  /\ totalAmount' = Deposit(totalAmount, value)
  /\ eeprom' = StoreAfterDeposit(eeprom, totalAmount')
  /\ frame' = updateDisplay(frame, totalAmount', YELLOW)
  /\ flushed' = TRUE
  /\ deposited' = [deposited EXCEPT ![value] = @ + 1]
  /\ IF MilestoneCrossed(totalAmount, totalAmount')
     THEN startFireworkAnimation(now) /\ armed' = TRUE
     ELSE UNCHANGED animState /\ abandoned' = NoneAbandoned /\ armed' = FALSE

\* a coin deposit: addCoin called with a denomination
AddCoin ==
  /\ NumDeposits < MaxDeposits
  /\ \E v \in CoinSet : addCoin(v, clock)
  /\ op' = "addCoin"
  /\ saved' = FALSE
  /\ UNCHANGED <<sensorVars, motorVars, buttonVars, clock, elapsed, adjusted,
                 sensorGhost, onLog, lastSaved, storeOps, plotted>>

\* addDollar(), called at time now
addDollar(now) ==
  /\ totalAmount' = totalAmount + DOLLAR
  /\ eeprom' = saveTotalToEEPROM(eeprom, totalAmount')
  /\ lastSaved' = [valid |-> TRUE, total |-> totalAmount']
  /\ saved' = TRUE
  /\ frame' = updateDisplay(frame, totalAmount', CYAN)
  /\ flushed' = TRUE
  /\ adjusted' = TRUE
  /\ IF MilestoneCrossed(totalAmount, totalAmount')
     THEN startFireworkAnimation(now) /\ armed' = TRUE
     ELSE UNCHANGED animState /\ abandoned' = NoneAbandoned /\ armed' = FALSE

AddDollar ==
  /\ totalAmount + DOLLAR <= MaxTotal
  /\ addDollar(clock)
  /\ op' = "addDollar"
  /\ UNCHANGED <<sensorVars, motorVars, buttonVars, clock, elapsed, deposited,
                 sensorGhost, onLog, storeOps, plotted>>

\* subtractDollar()
subtractDollar ==
  /\ IF CanSubtract(totalAmount)
     THEN /\ totalAmount' = totalAmount - DOLLAR
          /\ eeprom' = saveTotalToEEPROM(eeprom, totalAmount')
          /\ lastSaved' = [valid |-> TRUE, total |-> totalAmount']
          /\ saved' = TRUE
          /\ frame' = updateDisplay(frame, totalAmount', ORANGE)
          /\ adjusted' = TRUE
     ELSE /\ frame' = updateDisplay(frame, totalAmount, RefusalColor)
          /\ saved' = FALSE
          /\ UNCHANGED <<totalAmount, eeprom, lastSaved, adjusted>>
  /\ flushed' = TRUE
  /\ armed' = FALSE
  /\ abandoned' = NoneAbandoned
  /\ UNCHANGED animState

SubtractDollar ==
  /\ subtractDollar
  /\ op' = "subtractDollar"
  /\ UNCHANGED <<sensorVars, motorVars, buttonVars, clock, elapsed, deposited,
                 sensorGhost, onLog, storeOps, plotted>>

(* ------------------------------------------------------------------ *)
(* Animation engine                                                     *)
(* ------------------------------------------------------------------ *)
\* what updateAnimation records of a frame it flushes
Flushed(f) == [kind |-> f.kind, radius |-> f.amount]

\* a final flash that begins with the cleared frame
FlashIsWhiteOnOdd(step) == step % 2 = 1

\* if (flashStep % 2 == 0) strip.fill(white); else strip.clear();
FlashIsWhite(step) == step % 2 = 0

\* updateAnimation()
updateAnimation ==
  IF fireworkBurst < 3
  THEN IF animationStep < 8
       THEN /\ frame' = [RingFrame(fireworkCenterX, fireworkCenterY, animationStep,
                                   fireworkColor)
                           EXCEPT !.beneath = stripClear(frame)]
            /\ animationStep' = animationStep + 1
            /\ animLog' = Append(animLog, Flushed(frame'))
            /\ UNCHANGED <<animationPlaying, animationStartTime, fireworkBurst,
                           fireworkCenterX, fireworkCenterY, fireworkColor,
                           sparkleStep, flashStep, abandoned>>
       ELSE /\ fireworkBurst' = fireworkBurst + 1
            /\ IF fireworkBurst' < 3
               THEN /\ \E cx \in FireworkXs, cy \in FireworkYs, k \in PaletteIndexes :
                         /\ fireworkCenterX' = cx
                         /\ fireworkCenterY' = cy
                         /\ fireworkColor' = FireworkColors[k]
                    /\ animationStep' = 0
                    /\ sparkleStep' = 0
               ELSE UNCHANGED <<fireworkCenterX, fireworkCenterY, fireworkColor,
                                animationStep, sparkleStep>>
            /\ UNCHANGED <<frame, animationPlaying, animationStartTime, flashStep,
                           animLog, abandoned>>
  ELSE IF flashStep < 6
       THEN /\ frame' = (IF FlashIsWhite(flashStep)
                         THEN [WhiteFrame EXCEPT !.beneath = stripFill(frame)]
                         ELSE [BlankFrame EXCEPT !.beneath = stripClear(frame)])
            /\ flashStep' = flashStep + 1
            /\ animLog' = Append(animLog, Flushed(frame'))
            /\ UNCHANGED <<animationPlaying, animationStartTime, animationStep,
                           fireworkBurst, fireworkCenterX, fireworkCenterY,
                           fireworkColor, sparkleStep, abandoned>>
       ELSE /\ animationPlaying' = FALSE
            /\ frame' = [BlankFrame EXCEPT !.beneath = stripClear(frame)]
            /\ animLog' = Append(animLog, Flushed(frame'))
            /\ UNCHANGED <<animationStartTime, animationStep, fireworkBurst,
                           fireworkCenterX, fireworkCenterY, fireworkColor,
                           sparkleStep, flashStep, abandoned>>

\* the display branch of loop() (lines 208-213, commented out in the sketch
\* as shipped), animation case: if (animationPlaying) updateAnimation();
UpdateAnimation ==
  /\ animationPlaying
  /\ updateAnimation
  /\ op' = "updateAnimation"
  /\ armed' = FALSE
  /\ flushed' = FALSE
  /\ saved' = FALSE
  /\ UNCHANGED <<totalAmount, sensorVars, motorVars, buttonVars, eeprom, clock, elapsed,
                 deposited, adjusted, sensorGhost, onLog, lastSaved, storeOps, plotted>>

\* the same branch, idle case: else updateDisplay(totalAmount, green)
IdleRender ==
  /\ ~animationPlaying
  /\ frame' = updateDisplay(frame, totalAmount, GREEN)
  /\ op' = "idleRender"
  /\ armed' = FALSE
  /\ flushed' = TRUE
  /\ saved' = FALSE
  /\ UNCHANGED <<totalAmount, sensorVars, animVars, motorVars, buttonVars, eeprom, clock,
                 elapsed, deposited, adjusted, sensorGhost, onLog, lastSaved, storeOps, plotted>>

(* ------------------------------------------------------------------ *)
(* Initial state: the globals' initialisers and setup()                 *)
(* ------------------------------------------------------------------ *)
InitAt(c, total) ==
  /\ totalAmount = total
  /\ lastSensorTimes = [i \in Channels |-> U32(0)]
  /\ lastSensorStates = [i \in Channels |-> FALSE]
  /\ animationPlaying = FALSE
  /\ animationStartTime = U32(0)
  /\ animationStep = 0
  /\ fireworkBurst = 0
  /\ fireworkCenterX = 0
  /\ fireworkCenterY = 0
  /\ fireworkColor = 0
  /\ sparkleStep = 0
  /\ flashStep = 0
  /\ motorRunning = FALSE
  /\ motorDirection = TRUE
  /\ motorStartTime = U32(0)
  /\ lastMotorButtonState = TRUE
  /\ lastPulseTime = U32(0)
  /\ pulseState = FALSE
  /\ pulseCount = 0
  /\ sequenceCount = 0
  /\ pulsesInCurrentSequence = 0
  /\ lastAddButtonState = TRUE
  /\ lastSubtractButtonState = TRUE
  /\ lastAddButtonTime = U32(0)
  /\ lastSubtractButtonTime = U32(0)
  /\ pinForward = FALSE
  /\ pinBackward = FALSE
  /\ eeprom = ErasedEeprom
  /\ frame = updateDisplay(BlankFrame, total, GREEN)
  /\ clock = c
  /\ elapsed = 0
  /\ op = "setup"
  /\ armed = FALSE
  /\ flushed = TRUE
  /\ saved = FALSE
  /\ deposited = [v \in CoinSet |-> 0]
  /\ adjusted = FALSE
  /\ prevOcc = [i \in Channels |-> FALSE]
  /\ pending = [i \in Channels |-> FALSE]
  /\ spurious = [i \in Channels |-> FALSE]
  /\ coinValue = 0
  /\ lastEventAt = [i \in Channels |-> -1]
  /\ preempted = [i \in Channels |-> FALSE]
  /\ onLog = <<>>
  /\ pressedInRun = FALSE
  /\ lastSaved = [valid |-> FALSE, total |-> 0]
  /\ storeOps = 0
  /\ policyLatch = [b \in DollarButtons |-> FALSE]
  /\ buttonFired = [b \in DollarButtons |-> FALSE]
  /\ policyFired = [b \in DollarButtons |-> FALSE]
  /\ buttonEventAt = [b \in DollarButtons |-> -1]
  /\ animLog = <<>>
  /\ abandoned = NoneAbandoned
  /\ pulseOriginAt = -1
  /\ motorStartedAt = -1
  /\ plotted = {}

Init == InitAt(U32(SETUP_DELAY), 0)

(* ------------------------------------------------------------------ *)
(* The ledger and the manual adjustments as operations                  *)
(* ------------------------------------------------------------------ *)
NextLedger == AddCoin \/ AddDollar \/ SubtractDollar

SpecLedger == Init /\ [][NextLedger]_vars

(* ------------------------------------------------------------------ *)
(* Sensor debouncer: detectCoin, and loop() as shipped                  *)
(* ------------------------------------------------------------------ *)
\* analogRead values on either side of the detection threshold
SensorReadings == {COIN_THRESHOLD, COIN_THRESHOLD + 1}

\* milliseconds between two polls
PollDeltas == {4, 7}

\* bool coinDetected = (currentValue <= 640)
CoinDetected(currentValue) == currentValue <= COIN_THRESHOLD

\* a detector with no debounce interval
DebounceIgnored(currentTime, lastTime) == TRUE

\* (currentTime - lastSensorTimes[i]) > DEBOUNCE_DELAY, unsigned
DebounceElapsed(currentTime, lastTime) ==
  U32Gt(U32Sub(currentTime, lastTime), DEBOUNCE_DELAY)

\* the firing condition of channel i: coinDetected && !lastSensorStates[i] &&
\* (currentTime - lastSensorTimes[i]) > DEBOUNCE_DELAY
Qualifies(i, currentTime, readings, times, states) ==
  CoinDetected(readings[i]) /\ ~states[i] /\ DebounceElapsed(currentTime, times[i])

\* a scan that does not return on the first firing: every qualifying channel
\* fires in the same call and the last one's denomination is returned
RECURSIVE detectWithoutReturn(_, _, _, _, _)
detectWithoutReturn(i, currentTime, readings, times, states) ==
  IF i = 4
  THEN [times |-> times, states |-> states, value |-> 0, channel |-> -1]
  ELSE IF Qualifies(i, currentTime, readings, times, states)
       THEN LET rest == detectWithoutReturn(i + 1, currentTime, readings,
                                            [times EXCEPT ![i] = currentTime],
                                            [states EXCEPT ![i] = TRUE])
            IN  IF rest.value > 0 THEN rest
                ELSE [rest EXCEPT !.value = COIN_VALUES[i], !.channel = i]
       ELSE detectWithoutReturn(i + 1, currentTime, readings, times,
                                IF ~CoinDetected(readings[i]) /\ states[i]
                                THEN [states EXCEPT ![i] = FALSE] ELSE states)

\* detectCoin(): the for loop from channel i on, with its early return.
\* value is the denomination returned (0: none), channel the one that fired.
RECURSIVE detectFrom(_, _, _, _, _)
detectFrom(i, currentTime, readings, times, states) ==
  IF i = 4
  THEN [times |-> times, states |-> states, value |-> 0, channel |-> -1]
  ELSE IF Qualifies(i, currentTime, readings, times, states)
       THEN [times |-> [times EXCEPT ![i] = currentTime],
             states |-> [states EXCEPT ![i] = TRUE],
             value |-> COIN_VALUES[i], channel |-> i]
       ELSE detectFrom(i + 1, currentTime, readings, times,
                       IF ~CoinDetected(readings[i]) /\ states[i]
                       THEN [states EXCEPT ![i] = FALSE] ELSE states)

detectCoin(currentTime, readings) ==
  detectFrom(0, currentTime, readings, lastSensorTimes, lastSensorStates)

\* one iteration of loop(): detectCoin, then addCoin if a coin was reported
Loop ==
  /\ elapsed < MaxSensorTime
  /\ \E dt \in PollDeltas, readings \in [Channels -> SensorReadings] :
       LET now == U32Add(clock, dt)
           r == detectCoin(now, readings)
           occ == [i \in Channels |-> CoinDetected(readings[i])]
           edge == [i \in Channels |-> occ[i] /\ ~prevOcc[i]]
       IN  /\ clock' = now
           /\ elapsed' = elapsed + dt
           /\ lastSensorTimes' = r.times
           /\ lastSensorStates' = r.states
           /\ coinValue' = r.value
           /\ prevOcc' = occ
           /\ pending' = [i \in Channels |->
                            IF r.channel = i THEN FALSE
                            ELSE IF edge[i] THEN TRUE ELSE pending[i]]
           /\ spurious' = [i \in Channels |->
                             spurious[i] \/ (r.channel = i /\ ~edge[i] /\ ~pending[i])]
           /\ lastEventAt' = [i \in Channels |->
                                IF r.channel = i THEN elapsed' ELSE lastEventAt[i]]
           /\ preempted' = [i \in Channels |->
                              IF r.channel = i THEN FALSE
                              ELSE IF r.channel # -1 /\ r.channel < i /\ edge[i]
                                      /\ Qualifies(i, now, readings, lastSensorTimes,
                                                   lastSensorStates)
                                   THEN TRUE ELSE preempted[i]]
           /\ IF r.value > 0
              THEN addCoin(r.value, now)
              ELSE /\ UNCHANGED <<totalAmount, eeprom, frame, deposited, animVars>>
                   /\ armed' = FALSE
                   /\ flushed' = FALSE
  /\ op' = "loop"
  /\ saved' = FALSE
  /\ UNCHANGED <<motorVars, buttonVars, adjusted, onLog, lastSaved, storeOps, plotted>>

\* millis() just before it wraps: the state after 2^32 - WrapLead ms in which
\* no sensor was ever occupied
LateClock == [hi |-> Half - 1, lo |-> Half - WrapLead]

InitLoop == InitAt(U32(SETUP_DELAY), 0) \/ InitAt(LateClock, 0)

SpecLoop == InitLoop /\ [][Loop]_vars

(* ------------------------------------------------------------------ *)
(* loop() as shipped, one quarter short of the first milestone          *)
(* ------------------------------------------------------------------ *)
\* quarters that leave the total one quarter below FIREWORK_INTERVAL
NearMilestoneQuarters == FIREWORK_INTERVAL \div QUARTER_VALUE - 1

\* millis() once that many quarters have passed the sensor, each held and
\* released for just over a debounce interval
NearMilestoneClock ==
  U32(SETUP_DELAY + NearMilestoneQuarters * 2 * (DEBOUNCE_DELAY + 1))

\* the state loop() is in then: the last quarter fired DEBOUNCE_DELAY + 1 ms
\* before this poll and has left the sensor; nothing else was ever touched
InitSched ==
  /\ totalAmount = NearMilestoneQuarters * QUARTER_VALUE
  /\ lastSensorTimes =
       [i \in Channels |->
          IF COIN_VALUES[i] = QUARTER_VALUE
          THEN U32Sub(NearMilestoneClock, U32(DEBOUNCE_DELAY + 1)) ELSE U32(0)]
  /\ lastSensorStates = [i \in Channels |-> FALSE]
  /\ animationPlaying = FALSE
  /\ animationStartTime = U32(0)
  /\ animationStep = 0
  /\ fireworkBurst = 0
  /\ fireworkCenterX = 0
  /\ fireworkCenterY = 0
  /\ fireworkColor = 0
  /\ sparkleStep = 0
  /\ flashStep = 0
  /\ motorRunning = FALSE
  /\ motorDirection = TRUE
  /\ motorStartTime = U32(0)
  /\ lastMotorButtonState = TRUE
  /\ lastPulseTime = U32(0)
  /\ pulseState = FALSE
  /\ pulseCount = 0
  /\ sequenceCount = 0
  /\ pulsesInCurrentSequence = 0
  /\ lastAddButtonState = TRUE
  /\ lastSubtractButtonState = TRUE
  /\ lastAddButtonTime = U32(0)
  /\ lastSubtractButtonTime = U32(0)
  /\ pinForward = FALSE
  /\ pinBackward = FALSE
  /\ eeprom = ErasedEeprom
  /\ frame = MoneyFrame(totalAmount, YELLOW)
  /\ clock = NearMilestoneClock
  /\ elapsed = 0
  /\ op = "loop"
  /\ armed = FALSE
  /\ flushed = FALSE
  /\ saved = FALSE
  /\ deposited = [v \in CoinSet |-> IF v = QUARTER_VALUE THEN NearMilestoneQuarters ELSE 0]
  /\ adjusted = FALSE
  /\ prevOcc = [i \in Channels |-> FALSE]
  /\ pending = [i \in Channels |-> FALSE]
  /\ spurious = [i \in Channels |-> FALSE]
  /\ coinValue = 0
  /\ lastEventAt = [i \in Channels |->
                      IF COIN_VALUES[i] = QUARTER_VALUE THEN -(DEBOUNCE_DELAY + 1) ELSE -1]
  /\ preempted = [i \in Channels |-> FALSE]
  /\ onLog = <<>>
  /\ pressedInRun = FALSE
  /\ lastSaved = [valid |-> FALSE, total |-> 0]
  /\ storeOps = 0
  /\ policyLatch = [b \in DollarButtons |-> FALSE]
  /\ buttonFired = [b \in DollarButtons |-> FALSE]
  /\ policyFired = [b \in DollarButtons |-> FALSE]
  /\ buttonEventAt = [b \in DollarButtons |-> -1]
  /\ animLog = <<>>
  /\ abandoned = NoneAbandoned
  /\ pulseOriginAt = -1
  /\ motorStartedAt = -1
  /\ plotted = {}

SpecSched == InitSched /\ [][Loop]_vars

(* ------------------------------------------------------------------ *)
(* Motor sequencer: checkMotorButton, startMotor, updateMotorPulse,     *)
(* stopMotor.  checkMotorButton calls the others in sequence on the     *)
(* same globals, so they are functions of a record of those globals;    *)
(* stopped records that stopMotor (and with it the save) was called.    *)
(* ------------------------------------------------------------------ *)
\* milliseconds between two calls of checkMotorButton
MotorDeltas == {50, 100}

\* readings of MOTOR_BUTTON_PIN: TRUE = HIGH (released), FALSE = LOW (pressed)
ButtonLevels == {TRUE, FALSE}

\* how far millis() may advance between two reads within one handler; the
\* reads of checkMotorButton and startMotor are microseconds apart, so at
\* most one of them sees the next millisecond
MillisLags == {0, 1}

MotorState ==
  [motorRunning |-> motorRunning, motorDirection |-> motorDirection,
   motorStartTime |-> motorStartTime, lastPulseTime |-> lastPulseTime,
   pulseState |-> pulseState, pulseCount |-> pulseCount,
   sequenceCount |-> sequenceCount,
   pulsesInCurrentSequence |-> pulsesInCurrentSequence,
   pinForward |-> pinForward, pinBackward |-> pinBackward,
   onLog |-> onLog, stopped |-> FALSE]

\* startMotor(); t1 and t2 are what its two millis() calls return
startMotor(m, t1, t2) ==
  [m EXCEPT !.motorRunning = TRUE, !.motorStartTime = t1, !.lastPulseTime = t2,
            !.pulseState = TRUE, !.pulseCount = 0, !.sequenceCount = 0,
            !.pulsesInCurrentSequence = 0, !.motorDirection = TRUE,
            !.pinForward = TRUE, !.pinBackward = FALSE,
            !.onLog = <<TRUE>>]

\* a stop that only switches the motor off and leaves phase and counters
haltMotor(m) ==
  [m EXCEPT !.motorRunning = FALSE, !.pinForward = FALSE, !.pinBackward = FALSE,
            !.stopped = TRUE]

\* stopMotor()
stopMotor(m) ==
  [m EXCEPT !.motorRunning = FALSE, !.pinForward = FALSE, !.pinBackward = FALSE,
            !.pulseState = FALSE, !.pulseCount = 0, !.sequenceCount = 0,
            !.pulsesInCurrentSequence = 0, !.stopped = TRUE]

\* a sequence closed one pulse late
SequenceCompleteLate(pulses) == pulses > FORWARD_PULSES + BACKWARD_PULSES

\* pulsesInCurrentSequence >= (FORWARD_PULSES + BACKWARD_PULSES)
SequenceComplete(pulses) == pulses >= FORWARD_PULSES + BACKWARD_PULSES

\* a direction switch taken one pulse late
TurnsBackwardLate(pulses, direction) == pulses > FORWARD_PULSES /\ direction

\* if (pulsesInCurrentSequence >= FORWARD_PULSES && motorDirection)
TurnsBackward(pulses, direction) == pulses >= FORWARD_PULSES /\ direction

\* a backward output that is driven HIGH in either direction
BackwardPinHigh(direction) == TRUE

\* the level written to MOTOR_BACKWARD_PIN when the motor is turned on:
\* LOW for forward, HIGH for backward
BackwardPinLevel(direction) == ~direction

\* updateMotorPulse(currentTime)
updateMotorPulse(m, currentTime) ==
  IF m.pulseState
  THEN IF U32Ge(U32Sub(currentTime, m.lastPulseTime), PULSE_ON_TIME)
       THEN [m EXCEPT !.pinForward = FALSE, !.pinBackward = FALSE,
                      !.pulseState = FALSE, !.lastPulseTime = currentTime]
       ELSE m
  ELSE IF U32Ge(U32Sub(currentTime, m.lastPulseTime), PULSE_OFF_TIME)
       THEN LET pulses == m.pulsesInCurrentSequence + 1
                flipped == IF TurnsBackward(pulses, m.motorDirection)
                           THEN FALSE ELSE m.motorDirection
                counted == [m EXCEPT !.pulseCount = m.pulseCount + 1,
                                     !.pulsesInCurrentSequence = pulses,
                                     !.motorDirection = flipped]
                closed == IF SequenceComplete(pulses)
                          THEN [counted EXCEPT !.sequenceCount = m.sequenceCount + 1,
                                               !.pulsesInCurrentSequence = 0,
                                               !.motorDirection = TRUE]
                          ELSE counted
            IN  IF SequenceComplete(pulses) /\ closed.sequenceCount >= TOTAL_SEQUENCES
                THEN stopMotor(closed)
                ELSE [closed EXCEPT !.pinForward = closed.motorDirection,
                                    !.pinBackward = BackwardPinLevel(closed.motorDirection),
                                    !.pulseState = TRUE,
                                    !.lastPulseTime = currentTime,
                                    !.onLog = Append(closed.onLog, closed.motorDirection)]
       ELSE m

\* a press that restarts the sequencer whether or not it is running
StartsOnAnyPress(pressed, running) == pressed

\* if (press detected) { if (!motorRunning) startMotor(); }
StartsMotor(pressed, running) == pressed /\ ~running

\* checkMotorButton()
CheckMotorButton ==
  /\ elapsed < MaxMotorTime
  /\ \E dt \in MotorDeltas, currentButtonState \in ButtonLevels, lag1 \in MillisLags,
        lag2 \in MillisLags :
       LET currentTime == U32Add(clock, dt)
           pressed == /\ currentButtonState = FALSE
                      /\ lastMotorButtonState = TRUE
                      /\ DebounceElapsed(currentTime, motorStartTime)
           starts == StartsMotor(pressed, motorRunning)
           t1 == U32Add(currentTime, lag1)
           t2 == U32Add(t1, lag2)
           m1 == IF starts THEN startMotor(MotorState, t1, t2) ELSE MotorState
           m2 == IF m1.motorRunning THEN updateMotorPulse(m1, currentTime) ELSE m1
           spent == IF starts THEN lag1 + lag2 ELSE 0
       IN  /\ lag1 + lag2 <= 1
           /\ (~starts => lag1 = 0 /\ lag2 = 0)
           /\ clock' = U32Add(currentTime, spent)
           /\ elapsed' = elapsed + dt + spent
           /\ motorRunning' = m2.motorRunning
           /\ motorDirection' = m2.motorDirection
           /\ motorStartTime' = m2.motorStartTime
           /\ lastPulseTime' = m2.lastPulseTime
           /\ pulseState' = m2.pulseState
           /\ pulseCount' = m2.pulseCount
           /\ sequenceCount' = m2.sequenceCount
           /\ pulsesInCurrentSequence' = m2.pulsesInCurrentSequence
           /\ pinForward' = m2.pinForward
           /\ pinBackward' = m2.pinBackward
           /\ onLog' = m2.onLog
           /\ motorStartedAt' = (IF starts THEN elapsed + dt + lag1 ELSE motorStartedAt)
           /\ pulseOriginAt' = (IF m2.pulseState # m1.pulseState THEN elapsed + dt
                                ELSE IF starts THEN elapsed + dt + lag1 + lag2
                                ELSE pulseOriginAt)
           /\ pressedInRun' = (IF starts THEN FALSE
                               ELSE pressedInRun \/ (pressed /\ motorRunning))
           /\ lastMotorButtonState' = currentButtonState
           /\ flushed' = starts
           /\ frame' = (IF starts THEN updateDisplay(frame, totalAmount, PURPLE) ELSE frame)
           /\ saved' = m2.stopped
           /\ eeprom' = (IF m2.stopped THEN saveTotalToEEPROM(eeprom, totalAmount) ELSE eeprom)
           /\ lastSaved' = (IF m2.stopped THEN [valid |-> TRUE, total |-> totalAmount]
                            ELSE lastSaved)
  /\ op' = "checkMotorButton"
  /\ armed' = FALSE
  /\ UNCHANGED <<totalAmount, sensorVars, animVars, buttonVars, deposited, adjusted,
                 sensorGhost, storeOps, plotted>>

\* the On phases a run is to go through: per sequence FORWARD_PULSES forward
\* (TRUE), then BACKWARD_PULSES backward (FALSE)
ExpectedOnPhases ==
  [k \in 1..(TOTAL_SEQUENCES * (FORWARD_PULSES + BACKWARD_PULSES)) |->
     ((k - 1) % (FORWARD_PULSES + BACKWARD_PULSES)) < FORWARD_PULSES]

SpecMotor == Init /\ [][CheckMotorButton]_vars

(* ------------------------------------------------------------------ *)
(* The motor sequencer with millis() about to wrap                      *)
(* ------------------------------------------------------------------ *)
\* millis() one On phase and WrapLead ms before it wraps, the motor never
\* started and no button ever pressed
LateMotorClock == [hi |-> Half - 1, lo |-> Half - WrapLead - PULSE_ON_TIME]

InitWrap == InitAt(LateMotorClock, 0)

SpecWrap == InitWrap /\ [][CheckMotorButton]_vars

(* ------------------------------------------------------------------ *)
(* A motor run in its last Off phase, with the ledger operations        *)
(* ------------------------------------------------------------------ *)
\* the millisecond that passed between checkMotorButton's millis() and the
\* two of startMotor when the run was started
StartLag == 1

\* when the button was pressed: after ticks of 100, 100, 100 and 50 ms
RunPressedAt == 3 * PULSE_ON_TIME + PULSE_ON_TIME \div 2

\* milliseconds of ticking behind the state below: the press, and the run's
\* phases at 100 ms each up to the start of the last Off phase
RunTicked == RunPressedAt + StartLag
             + (2 * TOTAL_SEQUENCES * (FORWARD_PULSES + BACKWARD_PULSES) - 1) * PULSE_ON_TIME

\* a penny, a dime and a quarter were deposited before the button was pressed
RunDeposits == {PENNY_VALUE, DIME_VALUE, QUARTER_VALUE}

\* the state checkMotorButton has left: the tenth On phase has just ended
\* (the state SpecMotor reaches after RunTicked ms, the deposits apart)
InitRun ==
  /\ totalAmount = PENNY_VALUE + DIME_VALUE + QUARTER_VALUE
  /\ lastSensorTimes = [i \in Channels |-> U32(0)]
  /\ lastSensorStates = [i \in Channels |-> FALSE]
  /\ animationPlaying = FALSE
  /\ animationStartTime = U32(0)
  /\ animationStep = 0
  /\ fireworkBurst = 0
  /\ fireworkCenterX = 0
  /\ fireworkCenterY = 0
  /\ fireworkColor = 0
  /\ sparkleStep = 0
  /\ flashStep = 0
  /\ motorRunning = TRUE
  /\ motorDirection = FALSE
  /\ motorStartTime = U32(SETUP_DELAY + RunPressedAt + StartLag)
  /\ lastMotorButtonState = TRUE
  /\ lastPulseTime = U32(SETUP_DELAY + RunTicked)
  /\ pulseState = FALSE
  /\ pulseCount = TOTAL_SEQUENCES * (FORWARD_PULSES + BACKWARD_PULSES) - 1
  /\ sequenceCount = TOTAL_SEQUENCES - 1
  /\ pulsesInCurrentSequence = FORWARD_PULSES + BACKWARD_PULSES - 1
  /\ lastAddButtonState = TRUE
  /\ lastSubtractButtonState = TRUE
  /\ lastAddButtonTime = U32(0)
  /\ lastSubtractButtonTime = U32(0)
  /\ pinForward = FALSE
  /\ pinBackward = FALSE
  /\ eeprom = ErasedEeprom
  /\ frame = MoneyFrame(totalAmount, PURPLE)
  /\ clock = U32(SETUP_DELAY + RunTicked)
  /\ elapsed = RunTicked
  /\ op = "checkMotorButton"
  /\ armed = FALSE
  /\ flushed = FALSE
  /\ saved = FALSE
  /\ deposited = [v \in CoinSet |-> IF v \in RunDeposits THEN 1 ELSE 0]
  /\ adjusted = FALSE
  /\ prevOcc = [i \in Channels |-> FALSE]
  /\ pending = [i \in Channels |-> FALSE]
  /\ spurious = [i \in Channels |-> FALSE]
  /\ coinValue = 0
  /\ lastEventAt = [i \in Channels |-> -1]
  /\ preempted = [i \in Channels |-> FALSE]
  /\ onLog = ExpectedOnPhases
  /\ pressedInRun = FALSE
  /\ lastSaved = [valid |-> FALSE, total |-> 0]
  /\ storeOps = 0
  /\ policyLatch = [b \in DollarButtons |-> FALSE]
  /\ buttonFired = [b \in DollarButtons |-> FALSE]
  /\ policyFired = [b \in DollarButtons |-> FALSE]
  /\ buttonEventAt = [b \in DollarButtons |-> -1]
  /\ animLog = <<>>
  /\ abandoned = NoneAbandoned
  /\ pulseOriginAt = RunTicked
  /\ motorStartedAt = RunPressedAt + StartLag
  /\ plotted = {}

NextRun == CheckMotorButton \/ AddCoin \/ AddDollar \/ SubtractDollar

SpecRun == InitRun /\ [][NextRun]_vars

(* ------------------------------------------------------------------ *)
(* Dollar buttons: checkDollarButtons (its call in loop(), line 203, is *)
(* commented out in the sketch as shipped)                              *)
(* ------------------------------------------------------------------ *)
\* current == LOW && last == HIGH && (currentTime - lastTime) > DEBOUNCE_DELAY
ButtonPressed(current, last, currentTime, lastTime) ==
  current = FALSE /\ last = TRUE /\ DebounceElapsed(currentTime, lastTime)

\* a button level as the reading of a sensor channel: pressed (LOW) is occupied
AsReading(level) == IF level = FALSE THEN COIN_THRESHOLD ELSE COIN_THRESHOLD + 1

\* checkDollarButtons(): the add button, then the subtract button, on one
\* reading of millis()
CheckDollarButtons ==
  /\ elapsed < MaxSensorTime
  /\ \E dt \in PollDeltas, currentAddState \in ButtonLevels,
        currentSubtractState \in ButtonLevels :
       LET currentTime == U32Add(clock, dt)
           addFires == ButtonPressed(currentAddState, lastAddButtonState,
                                     currentTime, lastAddButtonTime)
           afterAdd == IF addFires THEN totalAmount + DOLLAR ELSE totalAmount
           memAdd == IF addFires THEN saveTotalToEEPROM(eeprom, afterAdd) ELSE eeprom
           frameAdd == IF addFires THEN updateDisplay(frame, afterAdd, CYAN) ELSE frame
           arms == addFires /\ MilestoneCrossed(totalAmount, afterAdd)
           subtractFires == ButtonPressed(currentSubtractState, lastSubtractButtonState,
                                          currentTime, lastSubtractButtonTime)
           subtracts == subtractFires /\ CanSubtract(afterAdd)
           afterSubtract == IF subtracts THEN afterAdd - DOLLAR ELSE afterAdd
           fires == [b \in DollarButtons |-> IF b = "add" THEN addFires ELSE subtractFires]
           readings == [b \in DollarButtons |->
                          AsReading(IF b = "add" THEN currentAddState
                                    ELSE currentSubtractState)]
           times == [b \in DollarButtons |->
                       IF b = "add" THEN lastAddButtonTime ELSE lastSubtractButtonTime]
           asSensor == [b \in DollarButtons |->
                          Qualifies(b, currentTime, readings, times, policyLatch)]
       IN  /\ clock' = currentTime
           /\ elapsed' = elapsed + dt
           /\ totalAmount' = afterSubtract
           /\ eeprom' = (IF subtracts THEN saveTotalToEEPROM(memAdd, afterSubtract)
                         ELSE memAdd)
           /\ lastSaved' = (IF addFires \/ subtracts
                            THEN [valid |-> TRUE, total |-> afterSubtract]
                            ELSE lastSaved)
           /\ saved' = (addFires \/ subtracts)
           /\ frame' = (IF subtractFires
                        THEN updateDisplay(frameAdd, afterSubtract,
                                           IF subtracts THEN ORANGE ELSE RefusalColor)
                        ELSE frameAdd)
           /\ flushed' = (addFires \/ subtractFires)
           /\ adjusted' = (adjusted \/ addFires \/ subtracts)
           /\ IF arms
              THEN startFireworkAnimation(currentTime) /\ armed' = TRUE
              ELSE UNCHANGED animState /\ abandoned' = NoneAbandoned /\ armed' = FALSE
           /\ lastAddButtonTime' = (IF addFires THEN currentTime ELSE lastAddButtonTime)
           /\ lastSubtractButtonTime' = (IF subtractFires THEN currentTime
                                         ELSE lastSubtractButtonTime)
           /\ lastAddButtonState' = currentAddState
           /\ lastSubtractButtonState' = currentSubtractState
           /\ buttonFired' = fires
           /\ policyFired' = asSensor
           /\ policyLatch' = [b \in DollarButtons |->
                                IF asSensor[b] THEN TRUE
                                ELSE IF ~CoinDetected(readings[b]) THEN FALSE
                                ELSE policyLatch[b]]
           /\ buttonEventAt' = [b \in DollarButtons |->
                                  IF fires[b] THEN elapsed' ELSE buttonEventAt[b]]
  /\ op' = "checkDollarButtons"
  /\ UNCHANGED <<sensorVars, motorVars, deposited, sensorGhost, onLog, storeOps, plotted>>

\* the dollar buttons polled from the state setup() leaves, at either end of
\* the range of millis()
SpecButtons == InitLoop /\ [][CheckDollarButtons]_vars

(* ------------------------------------------------------------------ *)
(* Persistence store: saveTotalToEEPROM, loadTotalFromEEPROM,           *)
(* clearEEPROM as operations, and a restart (the globals' initialisers  *)
(* and setup() run again, the EEPROM keeps its contents)                *)
(* ------------------------------------------------------------------ *)
\* totals the store is exercised with: one to four significant bytes
StoreTotals == {0, 1234, 65536, 305419896}

SaveTotalToEEPROM ==
  /\ storeOps < MaxStoreOps
  /\ storeOps' = storeOps + 1
  /\ eeprom' = saveTotalToEEPROM(eeprom, totalAmount)
  /\ lastSaved' = [valid |-> TRUE, total |-> totalAmount]
  /\ op' = "saveTotalToEEPROM"
  /\ saved' = TRUE
  /\ armed' = FALSE
  /\ flushed' = FALSE
  /\ UNCHANGED <<totalAmount, sensorVars, animVars, motorVars, buttonVars, frame, clock,
                 elapsed, deposited, adjusted, sensorGhost, onLog, plotted>>

LoadTotalFromEEPROM ==
  /\ storeOps < MaxStoreOps
  /\ storeOps' = storeOps + 1
  /\ totalAmount' = loadTotalFromEEPROM(eeprom)
  /\ adjusted' = TRUE
  /\ op' = "loadTotalFromEEPROM"
  /\ saved' = FALSE
  /\ armed' = FALSE
  /\ flushed' = FALSE
  /\ UNCHANGED <<sensorVars, animVars, motorVars, buttonVars, eeprom, frame, clock,
                 elapsed, deposited, sensorGhost, onLog, lastSaved, plotted>>

ClearEEPROM ==
  /\ storeOps < MaxStoreOps
  /\ storeOps' = storeOps + 1
  /\ eeprom' = clearEEPROM(eeprom)
  /\ lastSaved' = [lastSaved EXCEPT !.valid = FALSE]
  /\ op' = "clearEEPROM"
  /\ saved' = FALSE
  /\ armed' = FALSE
  /\ flushed' = FALSE
  /\ UNCHANGED <<totalAmount, sensorVars, animVars, motorVars, buttonVars, frame, clock,
                 elapsed, deposited, adjusted, sensorGhost, onLog, plotted>>

\* the total setup() leaves in effect: the initialiser's 0, the call of
\* loadTotalFromEEPROM() being commented out (line 175)
setupTotal(mem) == 0

\* what a power cycle does to everything but the EEPROM: the initialisers of
\* the globals, then setup()
PowerCycle ==
  /\ totalAmount' = setupTotal(eeprom)
  /\ lastSensorTimes' = [i \in Channels |-> U32(0)]
  /\ lastSensorStates' = [i \in Channels |-> FALSE]
  /\ animationPlaying' = FALSE
  /\ animationStartTime' = U32(0)
  /\ animationStep' = 0
  /\ fireworkBurst' = 0
  /\ fireworkCenterX' = 0
  /\ fireworkCenterY' = 0
  /\ fireworkColor' = 0
  /\ sparkleStep' = 0
  /\ flashStep' = 0
  /\ motorRunning' = FALSE
  /\ motorDirection' = TRUE
  /\ motorStartTime' = U32(0)
  /\ lastMotorButtonState' = TRUE
  /\ lastPulseTime' = U32(0)
  /\ pulseState' = FALSE
  /\ pulseCount' = 0
  /\ sequenceCount' = 0
  /\ pulsesInCurrentSequence' = 0
  /\ lastAddButtonState' = TRUE
  /\ lastSubtractButtonState' = TRUE
  /\ lastAddButtonTime' = U32(0)
  /\ lastSubtractButtonTime' = U32(0)
  /\ pinForward' = FALSE
  /\ pinBackward' = FALSE
  /\ frame' = updateDisplay(BlankFrame, totalAmount', GREEN)
  /\ clock' = U32(SETUP_DELAY)
  /\ elapsed' = 0
  /\ op' = "setup"
  /\ armed' = FALSE
  /\ flushed' = TRUE
  /\ saved' = FALSE
  /\ adjusted' = TRUE
  /\ prevOcc' = [i \in Channels |-> FALSE]
  /\ pending' = [i \in Channels |-> FALSE]
  /\ spurious' = [i \in Channels |-> FALSE]
  /\ coinValue' = 0
  /\ lastEventAt' = [i \in Channels |-> -1]
  /\ onLog' = <<>>
  /\ pressedInRun' = FALSE
  /\ preempted' = [i \in Channels |-> FALSE]
  /\ policyLatch' = [b \in DollarButtons |-> FALSE]
  /\ buttonFired' = [b \in DollarButtons |-> FALSE]
  /\ policyFired' = [b \in DollarButtons |-> FALSE]
  /\ buttonEventAt' = [b \in DollarButtons |-> -1]
  /\ animLog' = <<>>
  /\ abandoned' = NoneAbandoned
  /\ pulseOriginAt' = -1
  /\ motorStartedAt' = -1
  /\ UNCHANGED <<deposited, plotted>>

\* power cycle: the EEPROM keeps its contents
Setup ==
  /\ storeOps < MaxStoreOps
  /\ storeOps' = storeOps + 1
  /\ PowerCycle
  /\ UNCHANGED <<eeprom, lastSaved>>

InitStore == \E t \in StoreTotals : InitAt(U32(SETUP_DELAY), t)

NextStore == AddCoin \/ SaveTotalToEEPROM \/ LoadTotalFromEEPROM \/ ClearEEPROM \/ Setup

SpecStore == InitStore /\ [][NextStore]_vars

(* ------------------------------------------------------------------ *)
(* The persistence store with power lost inside saveTotalToEEPROM       *)
(* ------------------------------------------------------------------ *)
\* saveTotalToEEPROM() cut off after its first EEPROM.put (line 635): the
\* marker is written, the total (line 636) is not
markerWritten(mem) == PutUInt(mem, EEPROM_TOTAL_ADDRESS, EEPROM_MAGIC_NUMBER)

\* power is lost between the two writes of saveTotalToEEPROM, and the sketch
\* starts again; no save has completed
PowerLossInSave ==
  /\ storeOps < MaxStoreOps
  /\ storeOps' = storeOps + 1
  /\ eeprom' = markerWritten(eeprom)
  /\ PowerCycle
  /\ UNCHANGED lastSaved

NextPower == NextStore \/ PowerLossInSave

SpecPower == InitStore /\ [][NextPower]_vars

(* ------------------------------------------------------------------ *)
(* The renderer applied to chosen amounts: setup's display, then        *)
(* deposits and idle renders                                            *)
(* ------------------------------------------------------------------ *)
\* amounts in cents: one to eight major digits, minor parts below and above
\* ten, the edges of the five-digit budget, and amounts near LONG_MAX
RenderAmounts ==
  {0, 7, 10, 99, 100, 105, 12345, 999999, 9999999, 10000000, 10000005,
   12345678, 2147483000}

InitRender == \E a \in RenderAmounts : InitAt(U32(SETUP_DELAY), a)

NextRender == AddCoin \/ IdleRender

SpecRender == InitRender /\ [][NextRender]_vars

(* ------------------------------------------------------------------ *)
(* Pixel addressing: setMatrixPixel as an operation of its own          *)
(* ------------------------------------------------------------------ *)
\* a panel wired row by row in one direction: the column is never mirrored
RasterColumn(flippedY, flippedX) == flippedX

\* the column within the physical row: as it is on even rows, mirrored on odd
SerpentineColumn(flippedY, flippedX) ==
  IF flippedY % 2 = 0 THEN flippedX ELSE MATRIX_WIDTH - 1 - flippedX

\* pixelIndex of setMatrixPixel for an in-bounds (x, y)
PixelIndex(x, y) ==
  LET flippedY == MATRIX_HEIGHT - 1 - y
      flippedX == MATRIX_WIDTH - 1 - x
  IN  flippedY * MATRIX_WIDTH + SerpentineColumn(flippedY, flippedX)

\* the coordinates setMatrixPixel does not return on
InBounds(x, y) == ~(x < 0 \/ x >= MATRIX_WIDTH \/ y < 0 \/ y >= MATRIX_HEIGHT)

\* arguments tried: every pixel of the matrix and the ring just around it
PixelXs == -1..MATRIX_WIDTH
PixelYs == -1..MATRIX_HEIGHT

\* setMatrixPixel(x, y, color): strip.setPixelColor(pixelIndex, color), or
\* nothing when (x, y) is outside the matrix
SetMatrixPixel ==
  /\ Cardinality(plotted) < MaxPlots
  /\ \E x \in PixelXs, y \in PixelYs :
       plotted' = IF InBounds(x, y)
                  THEN plotted \cup {[x |-> x, y |-> y, index |-> PixelIndex(x, y)]}
                  ELSE plotted
  /\ op' = "setMatrixPixel"
  /\ armed' = FALSE
  /\ flushed' = FALSE
  /\ saved' = FALSE
  /\ UNCHANGED <<totalAmount, sensorVars, animVars, motorVars, buttonVars, eeprom, frame,
                 clock, elapsed, deposited, adjusted, sensorGhost, onLog, lastSaved,
                 storeOps>>

SpecPixel == Init /\ [][SetMatrixPixel]_vars

(* ------------------------------------------------------------------ *)
(* The animation engine with the manual adjustments: the display branch *)
(* of loop() (lines 208-213) run as operations, with addDollar and      *)
(* subtractDollar crossing the milestone                                *)
(* ------------------------------------------------------------------ *)
NextAnim == AddDollar \/ SubtractDollar \/ UpdateAnimation \/ IdleRender

SpecAnim == Init /\ [][NextAnim]_vars

(* ------------------------------------------------------------------ *)
(* Claims about the ledger (SpecLedger)                                 *)
(* ------------------------------------------------------------------ *)

\* C1: starting from total 0 and with no manual adjustment, the total after
\* the N-th addCoin equals the sum of the N deposited denominations.
C1_TotalIsSumOfDeposits == ~adjusted => totalAmount = DepositedSum

\* C1 witness: three different denominations deposited, nothing adjusted.
C1_Witness ==
  /\ ~adjusted
  /\ op = "addCoin"
  /\ deposited[PENNY_VALUE] = 1 /\ deposited[DIME_VALUE] = 1 /\ deposited[QUARTER_VALUE] = 1
  /\ totalAmount = 36

\* C2: under any interleaving of addCoin, addDollar and subtractDollar the
\* total is never negative.
C2_TotalNonNegative == totalAmount >= 0

\* C2 witness: deposits and adjustments interleaved and a subtraction just
\* refused on a total between 0 and one dollar.
C2_Witness ==
  /\ op = "subtractDollar" /\ ~saved /\ adjusted
  /\ NumDeposits > 0 /\ totalAmount > 0 /\ totalAmount < DOLLAR

C5_WitnessCoin == op = "addCoin" /\ armed /\ totalAmount = 1000

\* C9: subtractDollar with a total below one dollar changes neither the total
\* nor the persisted record, arms no animation, and shows the total in red,
\* not in the orange of a subtraction.
C9_RefusedSubtractIsNoOp ==
  [][(op' = "subtractDollar" /\ totalAmount < DOLLAR)
       => /\ totalAmount' = totalAmount
          /\ eeprom' = eeprom
          /\ ~saved'
          /\ ~armed'
          /\ UNCHANGED animVars
          /\ frame' = MoneyFrame(totalAmount, RED)
          /\ frame'.color # ORANGE]_vars

\* C9 witness: a refused subtraction on a total of 36 cents, shown in red.
C9_Witness ==
  /\ op = "subtractDollar" /\ ~saved
  /\ totalAmount = 36 /\ frame = MoneyFrame(36, RED)

\* C10: while the animation is playing, no operation other than
\* updateAnimation writes or flushes the pixel frame.
C10_AnimationOwnsFrame ==
  [][(animationPlaying /\ op' # "updateAnimation") => ~flushed']_vars

(* ------------------------------------------------------------------ *)
(* Claims about the sensor debouncer (SpecLoop)                         *)
(* ------------------------------------------------------------------ *)

\* C3: every rising occupancy edge of a channel is reported exactly once:
\* no edge is still unreported when the channel is seen unoccupied again
\* (dropped), and no report comes without an edge of its own (reported twice).
C3_ExactlyOncePerEdge ==
  \A i \in Channels : (pending[i] => prevOcc[i]) /\ ~spurious[i]

\* C4: two detection events on the same channel are at least DEBOUNCE_DELAY
\* milliseconds of clock time apart.
C4_EventsDebounced ==
  [][\A i \in Channels :
       (lastEventAt'[i] # lastEventAt[i] /\ lastEventAt[i] # -1)
         => lastEventAt'[i] - lastEventAt[i] >= DEBOUNCE_DELAY]_vars

\* C4 witness: the penny channel has fired twice, as close together as the
\* debounce allows, and the nickel channel has fired in between.
C4_Witness ==
  /\ deposited[PENNY_VALUE] = 2 /\ deposited[NICKEL_VALUE] = 1
  /\ lastEventAt[0] = 15 /\ coinValue = PENNY_VALUE

(* ------------------------------------------------------------------ *)
(* Claims about the motor sequencer (SpecMotor)                         *)
(* ------------------------------------------------------------------ *)
\* C6: from startMotor on, the On phases entered are, in order, forward x4,
\* backward x1, forward x4, backward x1; there is never an 11th; and the
\* sequencer is stopped only once all 10 have been entered (it stops from the
\* Off phase of the 10th).
C6_TenPulsesInOrder ==
  /\ Len(onLog) <= Len(ExpectedOnPhases)
  /\ \A k \in 1..Len(onLog) : onLog[k] = ExpectedOnPhases[k]
  /\ (~motorRunning /\ onLog # <<>>) => Len(onLog) = 10
  /\ (motorRunning /\ Len(onLog) = 10 /\ ~pulseState) => sequenceCount = 1

\* C6 witness: a run has gone through all 10 On phases and has stopped.
C6_Witness ==
  /\ ~motorRunning /\ saved /\ op = "checkMotorButton"
  /\ onLog = <<TRUE, TRUE, TRUE, TRUE, FALSE, TRUE, TRUE, TRUE, TRUE, FALSE>>

(* ------------------------------------------------------------------ *)
(* Claims about the persistence store (SpecStore)                       *)
(* ------------------------------------------------------------------ *)

\* C7: after a restart with a valid persisted record in the store, the total
\* in effect and the amount first displayed are the persisted total.
C7_StartupLoadsPersistedTotal ==
  (op = "setup" /\ GetUInt(eeprom, EEPROM_TOTAL_ADDRESS) = EEPROM_MAGIC_NUMBER)
    => /\ totalAmount = GetLong(eeprom, EEPROM_TOTAL_ADDRESS + 2)
       /\ frame = MoneyFrame(GetLong(eeprom, EEPROM_TOTAL_ADDRESS + 2), GREEN)

\* C8: loadTotalFromEEPROM leaves the stored total in totalAmount if the
\* 2-byte marker at offset 0 is 0xAA55 and 0 otherwise; so a load after
\* save(T) with no write in between yields T, and a load from a store never
\* written, or cleared since, yields 0.
C8_LoadReturnsSavedOrZero ==
  op = "loadTotalFromEEPROM"
    => /\ totalAmount = (IF eeprom[0] = 85 /\ eeprom[1] = 170
                         THEN GetLong(eeprom, EEPROM_TOTAL_ADDRESS + 2) ELSE 0)
       /\ lastSaved.valid => totalAmount = lastSaved.total
       /\ ~lastSaved.valid => totalAmount = 0

\* C8 witness: 1234 was saved, a coin then changed the total, and the load
\* brought 1234 back.
C8_Witness ==
  /\ op = "loadTotalFromEEPROM" /\ lastSaved = [valid |-> TRUE, total |-> 1234]
  /\ NumDeposits > 0 /\ totalAmount = 1234

\* C8, second case: a load after clearEEPROM yields 0 although the bytes of
\* the total saved before are still in the store.
C8_WitnessCleared ==
  /\ op = "loadTotalFromEEPROM" /\ ~lastSaved.valid
  /\ GetLong(eeprom, EEPROM_TOTAL_ADDRESS + 2) = 305419896 /\ totalAmount = 0

(* ------------------------------------------------------------------ *)
(* Claims about the scheduler loop (SpecSched)                          *)
(* ------------------------------------------------------------------ *)
\* where the animation state machine stands
AnimationPosition == <<animationPlaying, fireworkBurst, animationStep, flashStep>>

\* C11: once a milestone crossing has armed the animation, every iteration
\* of loop() that crosses no further milestone advances the animation state
\* machine by one step (so that it gets back to idle).
C11_LoopAdvancesAnimation ==
  [][(animationPlaying /\ op' = "loop" /\ ~armed')
       => AnimationPosition' # AnimationPosition]_vars

(* ------------------------------------------------------------------ *)
(* Further claims about the sensor debouncer (SpecLoop)                 *)
(* ------------------------------------------------------------------ *)
\* the channels that qualify at the poll of this step: occupied, latch
\* unoccupied, more than DEBOUNCE_DELAY since the channel's last event
QualifyingNow ==
  {i \in Channels :
     /\ prevOcc'[i]
     /\ ~lastSensorStates[i]
     /\ U32Gt(U32Sub(clock', lastSensorTimes[i]), DEBOUNCE_DELAY)}

\* the first channel of a non-empty set in the scan order penny, nickel,
\* dime, quarter
FirstInScanOrder(S) == CHOOSE i \in S : \A j \in S : i <= j

\* C12: a call of detectCoin reports at most one denomination (one deposit
\* at most); if several channels qualify it reports the first of them in scan
\* order, and the firing updates only that channel's timestamp and latch: no
\* other timestamp changes, no other latch is set, and the channels after it
\* keep their latch.
C12_FirstQualifyingOnly ==
  [][op' = "loop" =>
       IF QualifyingNow = {}
       THEN /\ coinValue' = 0
            /\ NumDeposits' = NumDeposits
            /\ lastSensorTimes' = lastSensorTimes
            /\ \A j \in Channels : lastSensorStates'[j] => lastSensorStates[j]
       ELSE /\ coinValue' = COIN_VALUES[FirstInScanOrder(QualifyingNow)]
            /\ NumDeposits' = NumDeposits + 1
            /\ deposited'[coinValue'] = deposited[coinValue'] + 1
            /\ lastSensorTimes' =
                 [lastSensorTimes EXCEPT ![FirstInScanOrder(QualifyingNow)] = clock']
            /\ lastSensorStates'[FirstInScanOrder(QualifyingNow)]
            /\ \A j \in Channels :
                 /\ (j # FirstInScanOrder(QualifyingNow) /\ lastSensorStates'[j])
                      => lastSensorStates[j]
                 /\ j > FirstInScanOrder(QualifyingNow)
                      => lastSensorStates'[j] = lastSensorStates[j]]_vars

\* C12 witness: penny, nickel and quarter qualified at the same poll and the
\* penny was the one reported.
C12_Witness ==
  /\ op = "loop" /\ coinValue = PENNY_VALUE
  /\ preempted[1] /\ ~preempted[2] /\ preempted[3]
  /\ lastSensorStates[0] /\ ~lastSensorStates[1] /\ ~lastSensorStates[3]

(* ------------------------------------------------------------------ *)
(* Claims about the renderer (SpecRender)                               *)
(* ------------------------------------------------------------------ *)
\* the number a sequence of digit glyphs reads as, most significant first
RECURSIVE GlyphValue(_)
GlyphValue(g) ==
  IF g = <<>> THEN 0
  ELSE 10 * GlyphValue(SubSeq(g, 1, Len(g) - 1)) + g[Len(g)].digit

\* the glyphs are digits (0..9) from position a to position b
AllDigits(g, a, b) ==
  \A k \in a..b : g[k].kind = "digit" /\ g[k].digit \in 0..9

\* the glyphs of a frame are laid out left to right without overlap
LeftToRight(g) ==
  \A k \in 1..(Len(g) - 1) :
     g[k + 1].x >= g[k].x + (IF g[k].kind = "point" THEN DECIMAL_WIDTH ELSE DIGIT_WIDTH)

\* the frame reads: the decimal digits of floor(amount / 100) with no leading
\* zero (a single 0 below one dollar), the separator, two digits of amount mod 100
ReadsAsAmount(f) ==
  LET g == f.glyphs
      n == Len(g)
  IN  /\ n >= 4
      /\ AllDigits(g, 1, n - 3)
      /\ GlyphValue(SubSeq(g, 1, n - 3)) = f.amount \div 100
      /\ (n - 3 > 1 => g[1].digit # 0)
      /\ g[n - 2].kind = "point"
      /\ AllDigits(g, n - 1, n)
      /\ 10 * g[n - 1].digit + g[n].digit = f.amount % 100
      /\ LeftToRight(g)

\* C13 as stated: for every amount >= 0 the frame reads as the amount.
C13_EveryAmountDrawnInFull ==
  (frame.kind = "money" /\ frame.amount >= 0) => ReadsAsAmount(frame)

\* C13 (amended): for every amount >= 0 whose major part has at most five
\* digits (amount < 10000000), drawMoney draws, left to right, the decimal
\* digits of floor(amount / 100) (at least one), the separator, and exactly two
\* digits of amount mod 100, with a leading zero below 10.
C13_AmountDrawnWithinBudget ==
  (frame.kind = "money" /\ frame.amount >= 0 /\ frame.amount < 10000000)
    => ReadsAsAmount(frame)

\* C13 witness: 123.45 on display after a deposit, five glyphs and a point.
C13_Witness ==
  /\ op = "addCoin" /\ totalAmount = 12345 + DIME_VALUE
  /\ frame.kind = "money" /\ Len(frame.glyphs) = 6
  /\ frame.glyphs[5] = DigitAt(5, 24) /\ frame.glyphs[6] = DigitAt(5, 28)

\* C13, second case: a minor part below ten is drawn with its leading zero.
C13_WitnessLeadingZero ==
  /\ op = "addCoin" /\ frame.kind = "money" /\ frame.amount = 105
  /\ frame.glyphs = <<DigitAt(1, 18), PointAt(22), DigitAt(0, 24), DigitAt(5, 28)>>

\* C14: when the major part has more than five digits, drawMoney draws its
\* five least-significant digits in their order (leading zeros of that tail
\* included), then the separator and the two minor digits; with five or fewer
\* digits all are drawn.  No glyph starts at a negative column or reaches
\* beyond the matrix.
C14_TruncatedToFiveDigits ==
  (frame.kind = "money" /\ frame.amount >= 0) =>
    LET g == frame.glyphs
        n == Len(g)
        major == frame.amount \div 100
    IN  /\ n >= 4 /\ n - 3 <= 5
        /\ AllDigits(g, 1, n - 3)
        /\ GlyphValue(SubSeq(g, 1, n - 3)) = major % 100000
        /\ (major >= 100000 => n - 3 = 5)
        /\ (major < 100000 => (n - 3 = 1 \/ g[1].digit # 0))
        /\ g[n - 2].kind = "point"
        /\ AllDigits(g, n - 1, n)
        /\ 10 * g[n - 1].digit + g[n].digit = frame.amount % 100
        /\ LeftToRight(g)
        /\ \A k \in 1..n : g[k].x >= 0 /\ g[k].x + DIGIT_WIDTH <= MATRIX_WIDTH

\* C14 witness: 123456.78 is shown as 23456.78, starting at column 2.
C14_Witness ==
  /\ op = "idleRender" /\ frame.kind = "money" /\ frame.amount = 12345678
  /\ frame.glyphs = <<DigitAt(2, 2), DigitAt(3, 6), DigitAt(4, 10), DigitAt(5, 14),
                      DigitAt(6, 18), PointAt(22), DigitAt(7, 24), DigitAt(8, 28)>>

\* C14, second case: the tail kept begins with zeros (100000.05 shows 00000.05).
C14_WitnessZeros ==
  /\ op = "addCoin" /\ frame.kind = "money" /\ frame.amount = 10000005
  /\ Len(frame.glyphs) = 8 /\ frame.glyphs[1] = DigitAt(0, 2)

(* ------------------------------------------------------------------ *)
(* Claims about pixel addressing (SpecPixel)                            *)
(* ------------------------------------------------------------------ *)
\* C15: an in-bounds logical (x, y) is addressed at fy * 32 + fx when fy is
\* even and at fy * 32 + (31 - fx) when fy is odd, with fx = 31 - x and
\* fy = 4 - y; so (0,0) is index 159, (31,4) index 0, (0,1) index 96; every
\* index lies in 0..159 and no two logical pixels share one (160 pixels onto
\* 160 indexes).
C15_SerpentineMapping ==
  /\ \A p \in plotted :
       LET fx == 31 - p.x
           fy == 4 - p.y
       IN  /\ p.x \in 0..31 /\ p.y \in 0..4
           /\ p.index = (IF fy % 2 = 0 THEN fy * 32 + fx ELSE fy * 32 + (31 - fx))
           /\ p.index \in 0..159
           /\ (p.x = 0 /\ p.y = 0 => p.index = 159)
           /\ (p.x = 31 /\ p.y = 4 => p.index = 0)
           /\ (p.x = 0 /\ p.y = 1 => p.index = 96)
  /\ \A p, q \in plotted : p.index = q.index => (p.x = q.x /\ p.y = q.y)

\* C15 witness: the top-left pixel (an even physical row) and the pixel under
\* it (an odd physical row) have been set, at indexes 159 and 96.
C15_Witness ==
  /\ op = "setMatrixPixel"
  /\ plotted = {[x |-> 0, y |-> 0, index |-> 159], [x |-> 0, y |-> 1, index |-> 96]}

(* ------------------------------------------------------------------ *)
(* Claims about the quiescent-point saves (SpecRun)                     *)
(* ------------------------------------------------------------------ *)
\* C16: the coin path (detectCoin and addCoin, alone or as an iteration of
\* loop()) leaves the persisted record as it is, and a step that writes the
\* record is an addDollar, a subtractDollar that subtracted, or the
\* checkMotorButton in which stopMotor ended the run.
C16_SavedOnlyAtQuiescentPoints ==
  [][/\ op' \in {"addCoin", "loop"} => (eeprom' = eeprom /\ ~saved')
     /\ (eeprom' # eeprom \/ saved')
          => \/ op' = "addDollar"
             \/ op' = "subtractDollar" /\ totalAmount' = totalAmount - DOLLAR
             \/ op' = "checkMotorButton" /\ motorRunning /\ ~motorRunning']_vars

\* C16 witness: a record was saved by addDollar, and a coin deposited since
\* then is not in it.
C16_Witness ==
  /\ op = "addCoin" /\ lastSaved.valid
  /\ GetLong(eeprom, EEPROM_TOTAL_ADDRESS + 2) = lastSaved.total
  /\ totalAmount = lastSaved.total + NICKEL_VALUE

\* C17: the step in which the configured sequence count completes leaves the
\* sequencer stopped: motorRunning false, both direction outputs LOW, pulse
\* phase Off, pulse and sequence counters zero, and the persisted record valid
\* and holding the total of that moment.  The run ends in no other way than
\* after its full count of On phases.
C17_StopResetsAndSaves ==
  [][(motorRunning /\ ~motorRunning')
       => /\ Len(onLog) = TOTAL_SEQUENCES * (FORWARD_PULSES + BACKWARD_PULSES)
          /\ ~pinForward' /\ ~pinBackward'
          /\ ~pulseState'
          /\ pulseCount' = 0 /\ sequenceCount' = 0 /\ pulsesInCurrentSequence' = 0
          /\ saved'
          /\ GetUInt(eeprom', EEPROM_TOTAL_ADDRESS) = EEPROM_MAGIC_NUMBER
          /\ GetLong(eeprom', EEPROM_TOTAL_ADDRESS + 2) = totalAmount'
          /\ totalAmount' = totalAmount]_vars

\* C17 witness: the run has just ended; the record saved by an earlier
\* addDollar has been replaced by the total that includes a coin deposited
\* after it.
C17_Witness ==
  /\ op = "checkMotorButton" /\ saved /\ ~motorRunning
  /\ adjusted /\ NumDeposits = 4
  /\ totalAmount = PENNY_VALUE + DIME_VALUE + QUARTER_VALUE + DOLLAR + QUARTER_VALUE
  /\ GetLong(eeprom, EEPROM_TOTAL_ADDRESS + 2) = totalAmount
  /\ pulseCount = 0 /\ sequenceCount = 0

(* ------------------------------------------------------------------ *)
(* Further claims about the motor sequencer (SpecMotor)                 *)
(* ------------------------------------------------------------------ *)
\* C18: a call of checkMotorButton that sees the button go down while the
\* motor is running leaves the run's start time alone and changes direction,
\* pulse phase, phase origin and counters exactly as the tick of
\* updateMotorPulse at that time does; the phases run so far are kept, and a
\* run that has ended has gone through its full count of On phases.
C18_PressWhileRunningIgnored ==
  [][(op' = "checkMotorButton" /\ motorRunning
        /\ lastMotorButtonState /\ ~lastMotorButtonState')
       => /\ motorStartTime' = motorStartTime
          /\ motorRunning' = updateMotorPulse(MotorState, clock').motorRunning
          /\ motorDirection' = updateMotorPulse(MotorState, clock').motorDirection
          /\ pulseState' = updateMotorPulse(MotorState, clock').pulseState
          /\ lastPulseTime' = updateMotorPulse(MotorState, clock').lastPulseTime
          /\ pulseCount' = updateMotorPulse(MotorState, clock').pulseCount
          /\ sequenceCount' = updateMotorPulse(MotorState, clock').sequenceCount
          /\ pulsesInCurrentSequence'
               = updateMotorPulse(MotorState, clock').pulsesInCurrentSequence
          /\ Len(onLog') >= Len(onLog)
          /\ SubSeq(onLog', 1, Len(onLog)) = onLog
          /\ (~motorRunning' => onLog' = ExpectedOnPhases)]_vars

\* C18 witness: the button was pressed again during a run, and the run has
\* ended after its ten On phases.
C18_Witness ==
  /\ op = "checkMotorButton" /\ pressedInRun /\ ~motorRunning /\ saved
  /\ onLog = ExpectedOnPhases

\* C18, second case: a press seen in the middle of the first sequence.
C18_WitnessMidRun ==
  /\ op = "checkMotorButton" /\ pressedInRun /\ motorRunning /\ ~lastMotorButtonState
  /\ onLog = <<TRUE, TRUE, TRUE>> /\ pulseCount = 2

(* ------------------------------------------------------------------ *)
(* Claims about simultaneous coins (SpecLoop)                           *)
(* ------------------------------------------------------------------ *)
\* C19: a channel that qualified on a rising edge at a poll in which an
\* earlier channel fired is not lost: it is not seen unoccupied again before
\* its denomination has been reported.
C19_PreemptedCoinNotLost ==
  \A i \in Channels : preempted[i] => prevOcc[i]

\* C20: after every poll, each channel that read clear at that poll has its
\* latch unoccupied and has not just been reported, whichever channel fired.
C20_ClearChannelUnlatched ==
  \A i \in Channels :
     (op = "loop" /\ ~prevOcc[i])
       => (~lastSensorStates[i] /\ coinValue # COIN_VALUES[i])

(* ------------------------------------------------------------------ *)
(* Claims about the buttons (SpecButtons)                               *)
(* ------------------------------------------------------------------ *)
\* C21: a button follows the edge+interval policy of a coin sensor channel:
\* at every poll its event fires exactly when a sensor channel fed the same
\* readings would fire, so a press that begins inside the debounce window
\* still fires once the window has elapsed while the button is held.
C21_ButtonsDebounceLikeSensors ==
  op = "checkDollarButtons" => \A b \in DollarButtons : buttonFired[b] = policyFired[b]

(* ------------------------------------------------------------------ *)
(* Claims about the animation engine (SpecAnim)                         *)
(* ------------------------------------------------------------------ *)
\* the phase of the animation state machine
AnimPhase ==
  IF ~animationPlaying THEN "Idle"
  ELSE IF fireworkBurst < 3 THEN "BurstExpanding" ELSE "FinalFlash"

\* the frames of one whole animation: three bursts of rings of radius 0..7,
\* six flashes beginning with white, and the cleared frame that ends it
ExpectedAnimation ==
  [k \in 1..24 |-> [kind |-> "ring", radius |-> (k - 1) % 8]]
  \o [k \in 1..6 |-> [kind |-> IF k % 2 = 1 THEN "white" ELSE "blank", radius |-> 0]]
  \o <<[kind |-> "blank", radius |-> 0]>>

IsPrefix(s, t) == Len(s) <= Len(t) /\ SubSeq(t, 1, Len(s)) = s

\* C22: from arming on, with no re-trigger, the steps of updateAnimation go
\* BurstExpanding -> FinalFlash -> Idle and never back: the frames flushed
\* are, in this order, three bursts of rings of radius 0, 1, ..., 7 (at most
\* one frame per step), six flashes alternating solid white and cleared,
\* white first, and one cleared frame flushed by the step that sets the engine
\* Idle; FinalFlash is entered only after the third burst has drawn radius 7.
C22_AnimationRunsItsCourse ==
  [][op' = "updateAnimation" =>
       /\ IsPrefix(animLog', ExpectedAnimation)
       /\ Len(animLog') \in {Len(animLog), Len(animLog) + 1}
       /\ <<AnimPhase, AnimPhase'>> \in
            {<<"BurstExpanding", "BurstExpanding">>, <<"BurstExpanding", "FinalFlash">>,
             <<"FinalFlash", "FinalFlash">>, <<"FinalFlash", "Idle">>}
       /\ fireworkBurst' >= fireworkBurst
       /\ flashStep' >= flashStep
       /\ (fireworkBurst' = fireworkBurst /\ AnimPhase' = "BurstExpanding")
            => animationStep' = animationStep + 1
       /\ (AnimPhase = "BurstExpanding" /\ AnimPhase' = "FinalFlash")
            => (Len(animLog) = 24 /\ animLog[24].radius = 7)
       /\ (AnimPhase' = "Idle")
            => (animLog' = ExpectedAnimation /\ frame' = BlankFrame)]_vars

\* C22 witness: an animation armed from Idle has run its whole course, all
\* 31 frames, and the engine is Idle again.
C22_Witness ==
  /\ op = "updateAnimation" /\ ~animationPlaying /\ ~abandoned.was
  /\ animLog = ExpectedAnimation /\ Len(animLog) = 31
  /\ fireworkBurst = 3 /\ flashStep = 6 /\ frame = BlankFrame

\* C25: every flush of the frame by updateDisplay or by a step of
\* updateAnimation comes after a full clear or a full fill within that same
\* operation: nothing drawn by an earlier operation is left in the flushed
\* frame, and a step that does not flush leaves the frame as it was.
C25_NoStalePixelFlushed ==
  [][/\ (flushed' \/ (op' = "updateAnimation" /\ animLog' # animLog))
          => frame'.beneath = {}
     /\ frame' # frame
          => (flushed' \/ (op' = "updateAnimation" /\ animLog' # animLog))]_vars

\* C25 witness: updateDisplay has flushed an amount over the seventh ring of
\* an animation in progress, and nothing of the ring is left beneath it.
C25_Witness ==
  /\ op = "subtractDollar" /\ flushed /\ animationPlaying
  /\ Len(animLog) = 7 /\ animLog[7].kind = "ring"
  /\ frame = MoneyFrame(totalAmount, ORANGE)

\* C25, second case: a ring flushed by updateAnimation over the amount that
\* the arming addDollar had drawn.
C25_WitnessRing ==
  /\ op = "updateAnimation" /\ animLog = <<[kind |-> "ring", radius |-> 0]>>
  /\ frame.kind = "ring" /\ frame.beneath = {}

\* C26: an arming, whether or not an animation is in progress, leaves the
\* engine at the very start of an animation: playing, burst 0, radius step 0,
\* flash step 0, a centre and a colour drawn for it; the next step of
\* updateAnimation flushes the ring of radius 0 at that centre in that
\* colour, and the engine goes Idle only after the whole course of the
\* animation armed last (nothing of the abandoned one is played first, and
\* nothing is played after it).
C26_RearmRestartsAnimation ==
  [][/\ armed' =>
          /\ animationPlaying' /\ fireworkBurst' = 0 /\ animationStep' = 0
          /\ flashStep' = 0 /\ animLog' = <<>>
          /\ fireworkCenterX' >= 8 /\ fireworkCenterX' < MATRIX_WIDTH - 8
          /\ fireworkCenterY' >= 1 /\ fireworkCenterY' < MATRIX_HEIGHT - 1
          /\ \E k \in 1..6 : fireworkColor' = FireworkColors[k]
     /\ (armed /\ op' = "updateAnimation") =>
          frame' = RingFrame(fireworkCenterX, fireworkCenterY, 0, fireworkColor)
     /\ (op' = "updateAnimation" /\ ~animationPlaying') => animLog' = ExpectedAnimation
     /\ (~animationPlaying /\ ~armed') => ~animationPlaying']_vars

\* C26 witness: addDollar has crossed the milestone again while the third
\* burst of an animation was being drawn, and the engine is back at the start.
C26_Witness ==
  /\ op = "addDollar" /\ armed /\ abandoned.was /\ abandoned.burst = 2
  /\ animationPlaying /\ fireworkBurst = 0 /\ animationStep = 0 /\ animLog = <<>>

\* C26, second case: the animation armed by the re-trigger has run its whole
\* course.
C26_WitnessCompleted ==
  /\ op = "updateAnimation" /\ ~animationPlaying /\ abandoned.was
  /\ animLog = ExpectedAnimation

(* ------------------------------------------------------------------ *)
(* Claims about the motor outputs and counters (SpecMotor)              *)
(* ------------------------------------------------------------------ *)
\* C23: in every state of the motor sequencer the two direction outputs are
\* never both HIGH; while the motor runs in an On phase exactly the output of
\* motorDirection is HIGH (forward pin for forward, backward pin for
\* backward); in an Off phase and while the motor is stopped both are LOW.
C23_OutputsFollowPhase ==
  /\ ~(pinForward /\ pinBackward)
  /\ (motorRunning /\ pulseState)
       => (pinForward = motorDirection /\ pinBackward = ~motorDirection)
  /\ (~motorRunning \/ ~pulseState) => (~pinForward /\ ~pinBackward)

\* C23 witness: the backward On phase of the first sequence, backward pin
\* HIGH and forward pin LOW.
C23_Witness ==
  /\ op = "checkMotorButton" /\ motorRunning /\ pulseState /\ ~motorDirection
  /\ pinBackward /\ ~pinForward /\ onLog = <<TRUE, TRUE, TRUE, TRUE, FALSE>>

\* C23, second case: the run has been stopped from its last Off phase.
C23_WitnessStopped ==
  /\ op = "checkMotorButton" /\ ~motorRunning /\ saved /\ onLog = ExpectedOnPhases
  /\ ~pinForward /\ ~pinBackward

\* C28: between ticks, whenever the motor is running,
\* 0 <= pulsesInCurrentSequence < 5, 0 <= sequenceCount < 2,
\* pulseCount = 5 * sequenceCount + pulsesInCurrentSequence, and motorDirection
\* is forward exactly when pulsesInCurrentSequence < 4.
C28_CountersConsistent ==
  motorRunning =>
    /\ 0 <= pulsesInCurrentSequence /\ pulsesInCurrentSequence < 5
    /\ 0 <= sequenceCount /\ sequenceCount < 2
    /\ pulseCount = 5 * sequenceCount + pulsesInCurrentSequence
    /\ motorDirection <=> pulsesInCurrentSequence < 4

\* C28 witness: the backward pulse of the second sequence: pulse 9, the
\* fifth of sequence 1.
C28_Witness ==
  /\ op = "checkMotorButton" /\ motorRunning /\ sequenceCount = 1
  /\ pulsesInCurrentSequence = 4 /\ pulseCount = 9 /\ ~motorDirection

(* ------------------------------------------------------------------ *)
(* Claims about power loss during a save (SpecPower)                    *)
(* ------------------------------------------------------------------ *)
\* C27: whatever saves were cut off by a power loss between the write of the
\* marker and the write of the total, a load yields 0 or the total of the
\* last save that completed (0 alone after clearEEPROM or when no save has
\* ever completed): never an unwritten, stale or negative value.
C27_LoadYieldsCompletedSaveOrZero ==
  op = "loadTotalFromEEPROM"
    => \/ totalAmount = 0
       \/ lastSaved.valid /\ totalAmount = lastSaved.total

(* ------------------------------------------------------------------ *)
(* Claims about the clock's wrap-around (SpecWrap; the sensor and the   *)
(* dollar-button parts are exercised by SpecLoop and SpecButtons)       *)
(* ------------------------------------------------------------------ *)
\* the stored origin of each dollar button's debounce window
LastButtonTime ==
  [b \in DollarButtons |->
     IF b = "add" THEN lastAddButtonTime ELSE lastSubtractButtonTime]

C24_WitnessNotEarly ==
  /\ op = "checkMotorButton" /\ motorRunning /\ pulseState
  /\ lastPulseTime.hi = Half - 1 /\ clock.hi = 0
  /\ elapsed - pulseOriginAt = PULSE_ON_TIME \div 2

====
